---- MODULE Spec2Model ----
(***************************************************************************)
(* A model of the layer pipeline of plotnine (src/plotnine/layer.py):      *)
(* layer.setup, add_group / discrete_columns, and the per-layer stages     *)
(* compute_aesthetics, compute_statistic, map_statistic, setup_data and    *)
(* compute_position.                                                       *)
(*                                                                         *)
(* Six specifications share the module, one per part of the pipeline:      *)
(*   SpecSetup  layer.setup on one layer of one plot                       *)
(*   SpecGroup  add_group applied to a table                               *)
(*   SpecStages one layer driven through the stages of the build           *)
(*   SpecLayers a collection of layers driven through the stage methods    *)
(*              of Layers and drawn                                        *)
(*   SpecCopy   a layer, its deep copy and mutations of both               *)
(*   SpecCount  stat_count.setup_params and compute_group on a table       *)
(* Each specification moves its own variables and leaves the others at     *)
(* their idle values.                                                      *)
(***************************************************************************)
EXTENDS Integers, Sequences, FiniteSets, TLC

VARIABLES
    \* ---- layer.setup -------------------------------------------------
    plot,       \* the ggplot object: [data, mapping]
    self,       \* the layer: [raw, hasData, data, mapping, inherit_aes, aes_params]
    heap,       \* the next fresh object identity
    raised,     \* the exception layer.setup ended with, or "none"
    pc,         \* the layer's position: "new", "setup", "failed"
    \* ---- add_group ---------------------------------------------------
    gin,        \* the table handed to add_group
    gout,       \* the table add_group returned
    gpc,        \* "call" before the call, "ret" after it
    \* ---- the layer's stages ------------------------------------------
    lyr,        \* the layer under build: [data, evaled, stat, geom, ...]
    scales,     \* the plot's scale registry: the aesthetics that have a scale
    calls,      \* the hooks of stat, geom, position and scales invoked so far
    stage_pc,   \* the next stage of the build
    \* ---- the collection of layers ------------------------------------
    layers,     \* the Layers list: a sequence of layers
    plot_scales,\* the plot's scale registry during the build of the collection
    method,     \* the method of Layers that is running
    idx,        \* the position of that method's loop in the list
    log,        \* the layer stages run so far: [method, layer], in order
    drawn,      \* the calls of geom.draw_layer so far: [layer, zorder, params]
    \* ---- deepcopy(layer) ---------------------------------------------
    objects,    \* the value of every object, by identity
    original,   \* the layer: the identity of the object each attribute holds
    duplicate,  \* the deep copy of the layer, likewise
    copy_pc,    \* "new" before the copy is made, "copied" after
    edits,      \* the number of mutations since the copy was made
    \* ---- stat_count --------------------------------------------------
    count_in,   \* the table and the parameters given to stat_count
    count_out,  \* what setup_params and compute_group made of them
    count_pc,   \* "call" before the call, "ret" after it
    \* ---- history -----------------------------------------------------
    before      \* the layer (and the registry) as the last operation found it

setupVars == <<plot, self, heap, raised, pc>>
groupVars == <<gin, gout, gpc>>
stageVars == <<lyr, scales, calls, stage_pc>>
layersVars == <<layers, plot_scales, method, idx, log, drawn>>
copyVars == <<objects, original, duplicate, copy_pc, edits>>
countVars == <<count_in, count_out, count_pc>>
vars == <<setupVars, groupVars, stageVars, layersVars, copyVars, countVars, before>>

(***************************************************************************)
(* Bounds of the model.                                                    *)
(***************************************************************************)
MaxVal == 2         \* cell values are 1..MaxVal
MaxSetupRows == 1   \* rows of a table handed to layer.setup
MaxRows == 3        \* rows of a table handed to add_group
MaxPanel == 2       \* panel ids are 1..MaxPanel
MaxStageRows == 3   \* rows of a layer's table in the stages

RECURSIVE SeqsUpTo(_, _)
SeqsUpTo(S, n) ==
    IF n = 0 THEN { <<>> }
    ELSE LET shorter == SeqsUpTo(S, n - 1)
         IN  shorter \cup { Append(s, v) : s \in { t \in shorter : Len(t) = n - 1 }, v \in S }

Restrict(f, D) == [k \in D |-> f[k]]

(***************************************************************************)
(* Python values that can be handed to a plot or a layer as data.          *)
(*   kind "None"        None                                               *)
(*   kind "DataFrame"   a pandas dataframe with the rows `rows`            *)
(*   kind "convertible" an object with to_pandas(), giving `rows`          *)
(*   kind "callable"    a function; `fn` names what it does                *)
(*   kind "other"       anything else; `fn` names what copy() does with it *)
(* obj is the identity of the object (0: no object).                       *)
(***************************************************************************)
PyNone == [kind |-> "None", obj |-> 0, rows |-> <<>>, fn |-> "-"]
DataFrame(o, rows) == [kind |-> "DataFrame", obj |-> o, rows |-> rows, fn |-> "-"]
Convertible(o, rows) == [kind |-> "convertible", obj |-> o, rows |-> rows, fn |-> "-"]
Callable(o, fn, rows) == [kind |-> "callable", obj |-> o, rows |-> rows, fn |-> fn]
Other(o, fn) == [kind |-> "other", obj |-> o, rows |-> <<>>, fn |-> fn]
Unset == [kind |-> "unset", obj |-> 0, rows |-> <<>>, fn |-> "-"]

PlotObj == 1        \* identity of the object the user gave the plot
LayerObj == 2       \* identity of the object the user gave the layer
FirstFresh == 3     \* identities of the objects made during setup start here

\* The outcome of a call: a value or an exception, and the heap afterwards.
Ret(v, h) == [exc |-> "none", val |-> v, heap |-> h]
Raise(e, h) == [exc |-> e, val |-> Unset, heap |-> h]

\* copy.copy(v): a dataframe is copied into a new object; other objects are
\* copied, or copy() raises, as their type decides.
PyCopy(v, h) ==
    CASE v.kind = "DataFrame" -> Ret(DataFrame(h, v.rows), h + 1)
      [] v.kind = "other" /\ v.fn = "copy_raises_AttributeError" -> Raise("AttributeError", h)
      [] v.kind = "other" /\ v.fn = "copy_raises_TypeError" -> Raise("TypeError", h)
      [] OTHER -> Ret([v EXCEPT !.obj = h], h + 1)

\* v.to_pandas()
ToPandas(v, h) == Ret(DataFrame(h, v.rows), h + 1)

\* plot_data(): a callable given as the plot's data, called without arguments
CallPlotData(f, h) ==
    IF f.fn = "make_table" THEN Ret(DataFrame(h, f.rows), h + 1)
    ELSE Ret(Other(h, "copies"), h + 1)

\* self._data(data): a callable given as the layer's data, applied to the
\* plot's data
CallLayerData(f, arg, h) ==
    CASE f.fn = "identity" -> Ret(arg, h)
      [] f.fn = "head" ->
            IF arg.kind = "DataFrame"
            THEN Ret(DataFrame(h, SubSeq(arg.rows, 1, IF Len(arg.rows) > 0 THEN 1 ELSE 0)), h + 1)
            ELSE Raise("AttributeError", h)
      [] OTHER -> Ret(Other(h, "copies"), h + 1)

\* layer._make_layer_data, lines 170-177: the plot's data as the layer sees it
ResolvePlotData(plot_data, h) ==
    CASE plot_data.kind = "None" -> Ret(DataFrame(h, <<>>), h + 1)
      [] plot_data.kind = "callable" -> CallPlotData(plot_data, h)
      [] plot_data.kind = "convertible" -> ToPandas(plot_data, h)
      [] OTHER -> Ret(plot_data, h)

\* The result of _make_layer_data: the exception it ends with, the value of
\* self.data afterwards and whether the attribute is set.
DataResult(e, v, set, h) == [exc |-> e, data |-> v, hasData |-> set, heap |-> h]

\* _make_layer_data with the plot's data taking precedence over the layer's
MakeLayerData_PlotFirst(l, plot_data, h) ==
    LET r == ResolvePlotData(plot_data, h)
    IN  IF plot_data.kind = "DataFrame"
        THEN DataResult("none", DataFrame(r.heap, r.val.rows), TRUE, r.heap + 1)
        ELSE DataResult("none", DataFrame(r.heap, l.raw.rows), TRUE, r.heap + 1)

\* layer._make_layer_data
MakeLayerData(l, plot_data, h) ==
    LET r == ResolvePlotData(plot_data, h)
        data == r.val
    IN  IF r.exc # "none" THEN DataResult(r.exc, l.data, l.hasData, r.heap)
        ELSE CASE l.raw.kind = "None" ->
                    LET c == PyCopy(data, r.heap)
                    IN  IF c.exc = "AttributeError"
                        THEN DataResult("PlotnineError", l.data, l.hasData, c.heap)
                        ELSE IF c.exc # "none"
                        THEN DataResult(c.exc, l.data, l.hasData, c.heap)
                        ELSE DataResult("none", c.val, TRUE, c.heap)
               [] l.raw.kind = "callable" ->
                    LET c == CallLayerData(l.raw, data, r.heap)
                    IN  IF c.exc # "none"
                        THEN DataResult(c.exc, l.data, l.hasData, c.heap)
                        ELSE IF c.val.kind # "DataFrame"
                        THEN DataResult("PlotnineError", c.val, TRUE, c.heap)
                        ELSE DataResult("none", c.val, TRUE, c.heap)
               [] l.raw.kind = "convertible" ->
                    LET c == ToPandas(l.raw, r.heap)
                    IN  DataResult("none", c.val, TRUE, c.heap)
               [] l.raw.kind = "DataFrame" ->
                    DataResult("none", DataFrame(r.heap, l.raw.rows), TRUE, r.heap + 1)
               [] OTHER ->
                    \* the message reads self.data, which only exists once set
                    DataResult(IF l.hasData THEN "TypeError" ELSE "AttributeError",
                               l.data, l.hasData, r.heap)

(***************************************************************************)
(* Aesthetic mappings.  A mapping is a function from aesthetic names to    *)
(* entries; an entry is a plain expression or stage(start=...).  A literal *)
(* is a Python value of the type `type` written `text`.                    *)
(***************************************************************************)
Aesthetics == {"x", "color", "group"}

StrLit(text) == [type |-> "str", text |-> text]
IntLit(text) == [type |-> "int", text |-> text]
BoolLit(text) == [type |-> "bool", text |-> text]
Expr(text) == [stage |-> FALSE, start |-> StrLit(text)]

\* stage(start=value)
Stage(value) == [stage |-> TRUE, start |-> value]

\* f'"{group}"'
DoubleQuote(lit) == StrLit("\"" \o lit.text \o "\"")

\* aes.inherit(other): the entries of `other` that `child` does not have are
\* added to those of `child`
Inherit(child, parent) ==
    [k \in DOMAIN child \cup DOMAIN parent |->
        IF k \in DOMAIN child THEN child[k] ELSE parent[k]]

\* _make_layer_mapping without the removal of the literal parameters
MakeLayerMapping_KeepsLiterals(l, plot_mapping) ==
    IF l.inherit_aes THEN Inherit(l.mapping, plot_mapping) ELSE l.mapping

\* _make_layer_mapping binding the group parameter as it is given
MakeLayerMapping_NoQuotes(l, plot_mapping) ==
    LET inherited == IF l.inherit_aes THEN Inherit(l.mapping, plot_mapping) ELSE l.mapping
        kept == Restrict(inherited, DOMAIN inherited \ DOMAIN l.aes_params)
    IN  IF "group" \in DOMAIN l.aes_params
        THEN [k \in DOMAIN kept \cup {"group"} |->
                IF k = "group" THEN Stage(l.aes_params["group"]) ELSE kept[k]]
        ELSE kept

\* layer._make_layer_mapping: the mapping the layer ends with
MakeLayerMapping(l, plot_mapping) ==
    LET inherited == IF l.inherit_aes THEN Inherit(l.mapping, plot_mapping) ELSE l.mapping
        kept == Restrict(inherited, DOMAIN inherited \ DOMAIN l.aes_params)
    IN  IF "group" \in DOMAIN l.aes_params
        THEN LET group == l.aes_params["group"]
                 start == IF group.type = "str" THEN DoubleQuote(group) ELSE group
             IN  [k \in DOMAIN kept \cup {"group"} |->
                    IF k = "group" THEN Stage(start) ELSE kept[k]]
        ELSE kept

(***************************************************************************)
(* layer.setup                                                             *)
(***************************************************************************)
SetupTables == SeqsUpTo(1..MaxVal, MaxSetupRows)

PlotDatas ==
    {PyNone}
    \cup { DataFrame(PlotObj, t) : t \in SetupTables }
    \cup { Convertible(PlotObj, t) : t \in SetupTables }
    \cup { Callable(PlotObj, "make_table", t) : t \in SetupTables }
    \cup { Callable(PlotObj, "make_scalar", <<>>) }
    \cup { Other(PlotObj, f) :
            f \in {"copies", "copy_raises_AttributeError", "copy_raises_TypeError"} }

LayerDatas ==
    {PyNone}
    \cup { DataFrame(LayerObj, t) : t \in SetupTables }
    \cup { Convertible(LayerObj, t) : t \in SetupTables }
    \cup { Callable(LayerObj, f, <<>>) : f \in {"identity", "head", "scalar"} }
    \cup { Other(LayerObj, "copies") }

\* the mappings a user can give: every entry of the plot reads column "p",
\* every entry of the layer column "c"
MappingsTo(text) == UNION { [D -> {Expr(text)}] : D \in SUBSET Aesthetics }

\* the literal aesthetics a geom can be given (geom.aes_params)
AesParams ==
    UNION { { f \in [D -> {StrLit("g"), IntLit("1"), BoolLit("True")}] :
                \A k \in D \ {"group"} : f[k] = StrLit("g") } : D \in SUBSET Aesthetics }

\* layer.__init__
NewLayer(data, mapping, inherit_aes, aes_params) ==
    [raw |-> data, hasData |-> FALSE, data |-> Unset, mapping |-> mapping,
     inherit_aes |-> inherit_aes, aes_params |-> aes_params,
     environment |-> "unset", zorder |-> 0]

NoMapping == [k \in {} |-> Expr("-")]

GroupIdle == gin = <<>> /\ gout = <<>> /\ gpc = "idle"
StageIdle == lyr = <<>> /\ scales = {} /\ calls = <<>> /\ stage_pc = "idle"
SetupIdle == plot = <<>> /\ self = <<>> /\ heap = FirstFresh /\ raised = "none" /\ pc = "idle"
LayersIdle ==
    /\ layers = <<>> /\ plot_scales = <<>> /\ method = "idle" /\ idx = 0
    /\ log = <<>> /\ drawn = <<>>
CopyIdle ==
    /\ objects = <<>> /\ original = <<>> /\ duplicate = <<>> /\ copy_pc = "idle"
    /\ edits = 0
CountIdle == count_in = <<>> /\ count_out = <<>> /\ count_pc = "idle"

SetupInit ==
    /\ heap = FirstFresh
    /\ raised = "none"
    /\ pc = "new"
    /\ \/ \E pd \in PlotDatas, ld \in LayerDatas :
            /\ plot = [data |-> pd, mapping |-> ("x" :> Expr("p")), environment |-> "env"]
            /\ self = NewLayer(ld, "color" :> Expr("c"), TRUE, NoMapping)
       \/ \E pd \in {PyNone, DataFrame(PlotObj, <<1>>)},
             pm \in MappingsTo("p"), lm \in MappingsTo("c"),
             inh \in BOOLEAN, ap \in AesParams :
            /\ plot = [data |-> pd, mapping |-> pm, environment |-> "env"]
            /\ self = NewLayer(PyNone, lm, inh, ap)
    /\ before = self
    /\ GroupIdle
    /\ StageIdle
    /\ LayersIdle
    /\ CopyIdle
    /\ CountIdle

\* layer.setup(plot)
Setup ==
    /\ pc = "new"
    /\ LET d == MakeLayerData(self, plot.data, heap)
       IN  /\ heap' = d.heap
           /\ raised' = d.exc
           /\ IF d.exc = "none"
              THEN /\ self' = [self EXCEPT !.data = d.data, !.hasData = TRUE,
                                           !.mapping = MakeLayerMapping(self, plot.mapping),
                                           !.environment = plot.environment]
                   /\ pc' = "setup"
              ELSE /\ self' = [self EXCEPT !.data = d.data, !.hasData = d.hasData]
                   /\ pc' = "failed"
    /\ before' = self
    /\ UNCHANGED <<plot, groupVars, stageVars, layersVars, copyVars, countVars>>

SetupNext == Setup

SpecSetup == SetupInit /\ [][SetupNext]_vars

(***************************************************************************)
(* Tables as add_group sees them: n rows and named columns.  A column has  *)
(* a kind and one value per row:                                           *)
(*   "discrete"    categorical / object dtype with hashable values         *)
(*   "compound"    object dtype whose values are unhashable structures     *)
(*   "continuous"  numeric dtype                                           *)
(* Columns are kept in the order of ColumnOrder.  Every row carries its    *)
(* index label, which stays with the row when the table is sorted.         *)
(***************************************************************************)
ColumnOrder ==
    <<"x", "y", "color", "label", "weight", "PANEL", "count", "prop", "width", "group">>

Column(kind, vals) == [kind |-> kind, vals |-> vals]

\* a dataframe of n rows with the index labels `index`, one per row
TableIdx(n, cols, index) == [n |-> n, cols |-> cols, index |-> index]

\* a dataframe with the default index
Table(n, cols) == TableIdx(n, cols, [i \in 1..n |-> i])

NoColumns == [c \in {} |-> Column("continuous", <<>>)]

\* pd.DataFrame()
EmptyTable == Table(0, NoColumns)

\* df[name] = column
SetColumn(df, name, col) ==
    [df EXCEPT !.cols = [c \in DOMAIN df.cols \cup {name} |->
                            IF c = name THEN col ELSE df.cols[c]]]

\* mapping.aes.SCALED_AESTHETICS, as far as the columns of the model go
SCALED_AESTHETICS == {"x", "y", "color"}

\* mapping.aes.NO_GROUP
NO_GROUP == -1

\* array_kind.discrete(series)
ArrayKindDiscrete(col) == col.kind \in {"discrete", "compound"}

\* hash(value) succeeds
Hashable(col) == col.kind # "compound"

\* the columns of df named in `names`, in column order
InOrder(names) == SelectSeq(ColumnOrder, LAMBDA c : c \in names)

\* discrete_columns(df, ignore)
discrete_columns(df, ignore) ==
    SelectSeq(InOrder(DOMAIN df.cols),
              LAMBDA col : /\ ArrayKindDiscrete(df.cols[col])
                           /\ col \notin ignore
                           /\ Hashable(df.cols[col]))

\* the values of row i in the columns `names` (a sequence of column names)
RowKey(df, names, i) == [k \in 1..Len(names) |-> df.cols[names[k]].vals[i]]

RECURSIVE LexLess(_, _)
LexLess(a, b) ==
    IF Len(a) = 0 THEN FALSE
    ELSE \/ Head(a) < Head(b)
         \/ Head(a) = Head(b) /\ LexLess(Tail(a), Tail(b))

\* utils.ninteraction(df[names], drop=True): one code per row, equal for rows
\* with equal values in `names`, numbered densely from 0 in the order of the
\* values
ninteraction(df, names) ==
    LET keys == { RowKey(df, names, i) : i \in 1..df.n }
    IN  [i \in 1..df.n |->
            Cardinality({ k \in keys : LexLess(k, RowKey(df, names, i)) })]

\* data['group'] = values
WithGroup(data, vals) ==
    [data EXCEPT !.cols =
          [c \in DOMAIN data.cols \cup {"group"} |->
                IF c = "group" THEN Column("continuous", vals) ELSE data.cols[c]]]

\* add_group with the precedence of the explicit group column lost
add_group_MixesColumns(data) ==
    IF data.n = 0 THEN data
    ELSE LET disc == discrete_columns(data, {})
         IN  IF Len(disc) > 0
             THEN WithGroup(data, ninteraction(data, disc))
             ELSE WithGroup(data, [i \in 1..data.n |-> NO_GROUP])

\* add_group without the early return on an empty table
add_group_NoEarlyReturn(data) ==
    IF "group" \notin DOMAIN data.cols
    THEN WithGroup(data, [i \in 1..data.n |-> NO_GROUP])
    ELSE WithGroup(data, ninteraction(data, <<"group">>))

\* add_group ignoring the columns that are scaled aesthetics
add_group_IgnoresScaled(data) ==
    IF data.n = 0 THEN data
    ELSE IF "group" \notin DOMAIN data.cols
    THEN LET disc == discrete_columns(data, SCALED_AESTHETICS)
         IN  IF Len(disc) > 0
             THEN WithGroup(data, ninteraction(data, disc))
             ELSE WithGroup(data, [i \in 1..data.n |-> NO_GROUP])
    ELSE WithGroup(data, ninteraction(data, <<"group">>))

\* add_group numbering the rows when there is nothing to group by
add_group_RowNumbers(data) ==
    IF data.n = 0 THEN data
    ELSE IF "group" \notin DOMAIN data.cols
    THEN LET disc == discrete_columns(data, DOMAIN data.cols \ SCALED_AESTHETICS)
         IN  IF Len(disc) > 0
             THEN WithGroup(data, ninteraction(data, disc))
             ELSE WithGroup(data, [i \in 1..data.n |-> i])
    ELSE WithGroup(data, ninteraction(data, <<"group">>))

\* add_group(data)
add_group(data) ==
    IF data.n = 0 THEN data
    ELSE IF "group" \notin DOMAIN data.cols
    THEN LET ignore == DOMAIN data.cols \ SCALED_AESTHETICS
             disc == discrete_columns(data, ignore)
         IN  IF Len(disc) > 0
             THEN WithGroup(data, ninteraction(data, disc))
             ELSE WithGroup(data, [i \in 1..data.n |-> NO_GROUP])
    ELSE WithGroup(data, ninteraction(data, <<"group">>))

\* the columns of n rows a table can have under a name: a discrete column
\* with any values, or a continuous or (but for group) a compound one
ColumnsOf(name, n) ==
    { Column("discrete", v) : v \in [1..n -> 1..MaxVal] }
    \cup { Column(k, [i \in 1..n |-> 1]) :
            k \in IF name = "group" THEN {"continuous"} ELSE {"continuous", "compound"} }

\* no column under a name
Absent == Column("absent", <<>>)

\* the table of n rows with the columns of `choice` that are not absent
TableOf(n, choice) ==
    Table(n, [c \in { k \in DOMAIN choice : choice[k] # Absent } |-> choice[c]])

\* add_group is applied to a table without a group column, with every choice
\* of the columns color and label, or to one with a group column, with every
\* choice of group and color and a label column that alternates between two
\* values or none
GroupInit ==
    /\ \E n \in 0..MaxRows :
        \E color \in ColumnsOf("color", n) \cup {Absent},
           label \in ColumnsOf("label", n) \cup {Absent},
           group \in ColumnsOf("group", n) \cup {Absent} :
            /\ group # Absent =>
                    label \in {Absent, Column("discrete", [i \in 1..n |-> 1 + (i % 2)])}
            /\ gin = TableOf(n, [c \in {"color", "label", "group"} |->
                                    CASE c = "color" -> color
                                      [] c = "label" -> label
                                      [] OTHER -> group])
    /\ gout = gin
    /\ gpc = "call"
    /\ before = <<>>
    /\ SetupIdle
    /\ StageIdle
    /\ LayersIdle
    /\ CopyIdle
    /\ CountIdle

\* a caller applies add_group to the table
CallAddGroup ==
    /\ gpc = "call"
    /\ gout' = add_group(gin)
    /\ gpc' = "ret"
    /\ UNCHANGED <<gin, before, setupVars, stageVars, layersVars, copyVars, countVars>>

GroupNext == CallAddGroup

SpecGroup == GroupInit /\ [][GroupNext]_vars

(***************************************************************************)
(* The stages of the build on one layer.                                   *)
(***************************************************************************)
\* the rows of df at the positions `perm`, in that order
Take(df, perm) ==
    TableIdx(Len(perm),
             [c \in DOMAIN df.cols |->
                Column(df.cols[c].kind, [k \in 1..Len(perm) |-> df.cols[c].vals[perm[k]]])],
             [k \in 1..Len(perm) |-> df.index[perm[k]]])

\* merging two sorted runs of row positions; on equal keys the row of the
\* right run goes first, so equal rows change places
RECURSIVE MergeRightFirst(_, _, _)
MergeRightFirst(left, right, key) ==
    IF Len(left) = 0 THEN right
    ELSE IF Len(right) = 0 THEN left
    ELSE IF LexLess(key[Head(left)], key[Head(right)])
    THEN <<Head(left)>> \o MergeRightFirst(Tail(left), right, key)
    ELSE <<Head(right)>> \o MergeRightFirst(left, Tail(right), key)

\* merging two sorted runs of row positions: the row of the left run goes
\* first unless the row of the right run has the smaller key
RECURSIVE Merge(_, _, _)
Merge(left, right, key) ==
    IF Len(left) = 0 THEN right
    ELSE IF Len(right) = 0 THEN left
    ELSE IF LexLess(key[Head(right)], key[Head(left)])
    THEN <<Head(right)>> \o Merge(left, Tail(right), key)
    ELSE <<Head(left)>> \o Merge(Tail(left), right, key)

RECURSIVE MergeSort(_, _)
MergeSort(positions, key) ==
    IF Len(positions) <= 1 THEN positions
    ELSE LET mid == Len(positions) \div 2
         IN  Merge(MergeSort(SubSeq(positions, 1, mid), key),
                   MergeSort(SubSeq(positions, mid + 1, Len(positions)), key),
                   key)

\* df.sort_values(by, kind='mergesort')
SortValues(df, by) ==
    Take(df, MergeSort([i \in 1..df.n |-> i], [i \in 1..df.n |-> RowKey(df, by, i)]))

(***************************************************************************)
(* Mapping entries of a layer under build: an aesthetic is bound to an     *)
(* expression evaluated on the raw data (start), to one evaluated on the   *)
(* output of the statistic (after_stat), or to both.  An expression names  *)
(* a column, or is a vector of values given in place of a column.          *)
(***************************************************************************)
NoExpr == [kind |-> "none", name |-> "-", vals |-> <<>>]
Col(name) == [kind |-> "col", name |-> name, vals |-> <<>>]
Vec(vals) == [kind |-> "vec", name |-> "-", vals |-> vals]

AtStart(e) == [start |-> e, after_stat |-> NoExpr]
after_stat(name) == [start |-> NoExpr, after_stat |-> Col(name)]
StartAndAfterStat(e, name) == [start |-> e, after_stat |-> Col(name)]

\* aes._starting
Starting(mapping) ==
    [a \in { k \in DOMAIN mapping : mapping[k].start.kind # "none" } |-> mapping[a].start]

\* aes._calculated
Calculated(mapping) ==
    [a \in { k \in DOMAIN mapping : mapping[k].after_stat.kind # "none" } |->
        mapping[a].after_stat]

\* mapping.evaluation.evaluate(aesthetics, data, env): one column per
\* expression; an expression naming no column of the data fails
Evaluate(exprs, data) ==
    LET vecs == { a \in DOMAIN exprs : exprs[a].kind = "vec" }
        n == IF vecs # {} THEN Len(exprs[CHOOSE a \in vecs : TRUE].vals) ELSE data.n
        index == IF data.n > 0 THEN data.index ELSE [i \in 1..n |-> i]
    IN  IF DOMAIN exprs = {} THEN [exc |-> "none", table |-> EmptyTable]
        ELSE IF \E a \in DOMAIN exprs :
                    exprs[a].kind = "col" /\ exprs[a].name \notin DOMAIN data.cols
        THEN [exc |-> "PlotnineError", table |-> EmptyTable]
        ELSE [exc |-> "none",
              table |-> TableIdx(n,
                            [a \in DOMAIN exprs |->
                                IF exprs[a].kind = "col" THEN data.cols[exprs[a].name]
                                ELSE Column("continuous", exprs[a].vals)],
                            index)]

(***************************************************************************)
(* The scale registry: the aesthetics that have a scale, each with the     *)
(* transformation of its scale.                                            *)
(***************************************************************************)
\* scales.add_defaults(data, aesthetics): an aesthetic without a scale gets
\* the default scale
AddDefaults(registry, aesthetics) ==
    [a \in DOMAIN registry \cup aesthetics |->
        IF a \in DOMAIN registry THEN registry[a] ELSE "identity"]

\* the transformation of a scale applied to one value of a column; a value
\* of a "ratio" column is the fraction num/den
Transform(trans, kind, v) ==
    IF trans # "reverse" THEN v
    ELSE IF kind = "ratio" THEN [num |-> 0 - v.num, den |-> v.den]
    ELSE 0 - v

\* scales.transform_df(df)
TransformDf(registry, df) ==
    [df EXCEPT !.cols =
        [c \in DOMAIN df.cols |->
            IF c \in DOMAIN registry
            THEN Column(df.cols[c].kind,
                        [i \in 1..df.n |->
                            Transform(registry[c], df.cols[c].kind, df.cols[c].vals[i])])
            ELSE df.cols[c]]]

\* the outcome of a stage: the exception it ends with, the layer's table,
\* the registry and the hooks it invoked
StageResult(e, data, registry, hooks) ==
    [exc |-> e, data |-> data, scales |-> registry, calls |-> hooks]

\* layer.compute_aesthetics, lines 258-268: the evaluated aesthetics with
\* their panel and their group, before the rows are sorted
evaluated_aesthetics(l) ==
    LET evaled == Evaluate(Starting(l.mapping), l.data).table
        withPanel ==
            IF l.data.n = 0 /\ evaled.n > 0
            THEN SetColumn(evaled, "PANEL", Column("continuous", [i \in 1..evaled.n |-> 1]))
            ELSE TableIdx(l.data.n,
                          SetColumn(evaled, "PANEL", l.data.cols["PANEL"]).cols,
                          l.data.index)
    IN  add_group(withPanel)

\* layer.compute_aesthetics(plot)
compute_aesthetics(l, registry) ==
    LET ev == Evaluate(Starting(l.mapping), l.data)
    IN  IF ev.exc # "none" THEN StageResult(ev.exc, l.data, registry, <<>>)
        ELSE StageResult("none", SortValues(evaluated_aesthetics(l), <<"PANEL">>),
                         AddDefaults(registry, DOMAIN ev.table.cols),
                         <<"scales.add_defaults">>)

(***************************************************************************)
(* The statistic of the layer: stat_identity or stat_count.                *)
(***************************************************************************)
RECURSIVE SortedSeq(_)
SortedSeq(S) ==
    IF S = {} THEN <<>>
    ELSE LET least == CHOOSE v \in S : \A w \in S : v <= w
         IN  <<least>> \o SortedSeq(S \ {least})

RECURSIVE Flatten(_)
Flatten(seqs) == IF Len(seqs) = 0 THEN <<>> ELSE Head(seqs) \o Flatten(Tail(seqs))

RECURSIVE Sum(_)
Sum(seq) == IF Len(seq) = 0 THEN 0 ELSE Head(seq) + Sum(Tail(seq))

Abs(v) == IF v < 0 THEN 0 - v ELSE v

\* utils.resolution(x, False): the smallest distance between two values of x,
\* 1 when there is only one value
resolution(x) ==
    LET values == { x[i] : i \in DOMAIN x }
        gaps == { Abs(v - w) : v \in values, w \in values } \ {0}
    IN  IF gaps = {} THEN 1 ELSE CHOOSE g \in gaps : \A h \in gaps : g <= h

WidthUnset == 0     \* params['width'] is None

\* stat_count.setup_params(data); widths are counted in tenths
stat_count_setup_params(params, data) ==
    IF params.width # WidthUnset THEN [exc |-> "none", params |-> params]
    ELSE IF "x" \notin DOMAIN data.cols THEN [exc |-> "KeyError", params |-> params]
    ELSE [exc |-> "none",
          params |-> [params EXCEPT !.width = resolution(data.cols["x"].vals) * 9]]

\* compute_group counting the rows whatever their weight
stat_count_compute_group_IgnoresWeight(data, positions, params) ==
    IF "x" \notin DOMAIN data.cols THEN [exc |-> "KeyError", rows |-> <<>>]
    ELSE IF "y" \in DOMAIN data.cols \/ params.y
    THEN [exc |-> "PlotnineError", rows |-> <<>>]
    ELSE LET x == data.cols["x"].vals
             weight(i) == 1
             xs == SortedSeq({ x[positions[k]] : k \in 1..Len(positions) })
             at(v) == SelectSeq(positions, LAMBDA i : x[i] = v)
             count == [k \in 1..Len(xs) |->
                          Sum([m \in 1..Len(at(xs[k])) |-> weight(at(xs[k])[m])])]
             total == Sum([k \in 1..Len(xs) |-> Abs(count[k])])
         IN  [exc |-> "none",
              rows |-> [k \in 1..Len(xs) |->
                          [count |-> count[k],
                           prop |-> [num |-> count[k], den |-> total],
                           x |-> xs[k],
                           width |-> params.width]]]

\* compute_group rejecting y only when it is a column of the data
stat_count_compute_group_ColumnOnly(data, positions, params) ==
    IF "x" \notin DOMAIN data.cols THEN [exc |-> "KeyError", rows |-> <<>>]
    ELSE IF "y" \in DOMAIN data.cols
    THEN [exc |-> "PlotnineError", rows |-> <<>>]
    ELSE LET x == data.cols["x"].vals
             weight(i) == IF "weight" \in DOMAIN data.cols
                          THEN data.cols["weight"].vals[i] ELSE 1
             xs == SortedSeq({ x[positions[k]] : k \in 1..Len(positions) })
             at(v) == SelectSeq(positions, LAMBDA i : x[i] = v)
             count == [k \in 1..Len(xs) |->
                          Sum([m \in 1..Len(at(xs[k])) |-> weight(at(xs[k])[m])])]
             total == Sum([k \in 1..Len(xs) |-> Abs(count[k])])
         IN  [exc |-> "none",
              rows |-> [k \in 1..Len(xs) |->
                          [count |-> count[k],
                           prop |-> [num |-> count[k], den |-> total],
                           x |-> xs[k],
                           width |-> params.width]]]

\* stat_count.compute_group(data, scales, **params) on the rows `positions`
\* of the layer's table: one output row per value of x
stat_count_compute_group(data, positions, params) ==
    IF "x" \notin DOMAIN data.cols THEN [exc |-> "KeyError", rows |-> <<>>]
    ELSE IF "y" \in DOMAIN data.cols \/ params.y
    THEN [exc |-> "PlotnineError", rows |-> <<>>]
    ELSE LET x == data.cols["x"].vals
             weight(i) == IF "weight" \in DOMAIN data.cols
                          THEN data.cols["weight"].vals[i] ELSE 1
             xs == SortedSeq({ x[positions[k]] : k \in 1..Len(positions) })
             at(v) == SelectSeq(positions, LAMBDA i : x[i] = v)
             count == [k \in 1..Len(xs) |->
                          Sum([m \in 1..Len(at(xs[k])) |-> weight(at(xs[k])[m])])]
             total == Sum([k \in 1..Len(xs) |-> Abs(count[k])])
         IN  [exc |-> "none",
              rows |-> [k \in 1..Len(xs) |->
                          [count |-> count[k],
                           prop |-> [num |-> count[k], den |-> total],
                           x |-> xs[k],
                           width |-> params.width]]]

\* stat.compute_layer(data, params, layout) of stat_count: the table is
\* split by panel and by group, compute_group runs on each part, and the
\* results are put together, each row with its panel and its group
stat_count_compute_layer(data, params) ==
    LET panel == data.cols["PANEL"].vals
        group == data.cols["group"].vals
        panels == SortedSeq({ panel[i] : i \in 1..data.n })
        groupsOf(p) == SortedSeq({ group[i] : i \in { j \in 1..data.n : panel[j] = p } })
        part(p, g) == SelectSeq([i \in 1..data.n |-> i],
                                LAMBDA i : panel[i] = p /\ group[i] = g)
        result(p, g) == stat_count_compute_group(data, part(p, g), params)
        annotated(p, g) ==
            [k \in 1..Len(result(p, g).rows) |->
                [count |-> result(p, g).rows[k].count, prop |-> result(p, g).rows[k].prop,
                 x |-> result(p, g).rows[k].x, width |-> result(p, g).rows[k].width,
                 PANEL |-> p, group |-> g]]
        rows == Flatten([a \in 1..Len(panels) |->
                    Flatten([b \in 1..Len(groupsOf(panels[a])) |->
                        annotated(panels[a], groupsOf(panels[a])[b])])])
        failed == \E i \in 1..data.n : result(panel[i], group[i]).exc # "none"
        n == Len(rows)
    IN  IF failed
        THEN [exc |-> result(panel[1], group[1]).exc, data |-> data]
        ELSE [exc |-> "none",
              data |-> Table(n,
                  [c \in {"count", "prop", "x", "width", "PANEL", "group"} |->
                      CASE c = "count" -> Column("continuous", [k \in 1..n |-> rows[k].count])
                        [] c = "prop" -> Column("ratio", [k \in 1..n |-> rows[k].prop])
                        [] c = "x" -> Column(data.cols["x"].kind, [k \in 1..n |-> rows[k].x])
                        [] c = "width" -> Column("continuous", [k \in 1..n |-> rows[k].width])
                        [] c = "PANEL" -> Column(data.cols["PANEL"].kind,
                                                 [k \in 1..n |-> rows[k].PANEL])
                        [] OTHER -> Column("continuous", [k \in 1..n |-> rows[k].group])])]

NoAes == [a \in {} |-> AtStart(NoExpr)]

\* stat_identity() and stat_count()
stat_identity(retransform) ==
    [kind |-> "identity", DEFAULT_AES |-> NoAes, retransform |-> retransform,
     params |-> [width |-> WidthUnset, y |-> FALSE]]
stat_count(retransform) ==
    [kind |-> "count", DEFAULT_AES |-> ("y" :> after_stat("count")),
     retransform |-> retransform, params |-> [width |-> WidthUnset, y |-> FALSE]]

\* stat.setup_params(data)
stat_setup_params(stat, data) ==
    IF stat.kind = "count" THEN stat_count_setup_params(stat.params, data)
    ELSE [exc |-> "none", params |-> stat.params]

\* stat.compute_layer(data, params, layout)
stat_compute_layer(stat, data, params) ==
    IF stat.kind = "count" THEN stat_count_compute_layer(data, params)
    ELSE [exc |-> "none", data |-> data]

\* layer.compute_statistic(layout)
compute_statistic(l, registry) ==
    IF l.data.n = 0 THEN StageResult("none", l.data, registry, <<>>)
    ELSE LET p == stat_setup_params(l.stat, l.data)
             out == stat_compute_layer(l.stat, l.data, p.params)
         IN  IF p.exc # "none"
             THEN StageResult(p.exc, l.data, registry, <<"stat.setup_params">>)
             ELSE StageResult(out.exc, out.data, registry,
                              <<"stat.setup_params", "stat.use_defaults",
                                "stat.setup_data", "stat.compute_layer">>)

\* map_statistic keeping the column of the statistic where both have one
map_statistic_StatWins(l, registry) ==
    LET ev == Evaluate(Calculated(Inherit(l.mapping, l.stat.DEFAULT_AES)), l.data)
    IN  IF l.data.n = 0 \/ ev.exc # "none" \/ ev.table.n = 0
        THEN StageResult(ev.exc, l.data, registry, <<>>)
        ELSE StageResult("none",
                [l.data EXCEPT !.cols =
                    [c \in DOMAIN l.data.cols \cup DOMAIN ev.table.cols |->
                        IF c \in DOMAIN l.data.cols THEN l.data.cols[c] ELSE ev.table.cols[c]]],
                AddDefaults(registry, DOMAIN ev.table.cols),
                <<"scales.add_defaults">>)

\* layer.map_statistic(plot)
map_statistic(l, registry) ==
    IF l.data.n = 0 THEN StageResult("none", l.data, registry, <<>>)
    ELSE LET aesthetics == Inherit(l.mapping, l.stat.DEFAULT_AES)
             ev == Evaluate(Calculated(aesthetics), l.data)
             stat_data == IF l.stat.retransform
                          THEN TransformDf(registry, ev.table) ELSE ev.table
             columns == DOMAIN l.data.cols \ DOMAIN stat_data.cols
             merged == [l.data EXCEPT !.cols =
                            [c \in columns \cup DOMAIN stat_data.cols |->
                                IF c \in columns THEN l.data.cols[c] ELSE stat_data.cols[c]]]
         IN  IF ev.exc # "none" THEN StageResult(ev.exc, l.data, registry, <<>>)
             ELSE IF ev.table.n = 0 THEN StageResult("none", l.data, registry, <<>>)
             ELSE StageResult("none", merged,
                              AddDefaults(registry, DOMAIN stat_data.cols),
                              IF l.stat.retransform
                              THEN <<"scales.transform_df", "scales.add_defaults">>
                              ELSE <<"scales.add_defaults">>)

(***************************************************************************)
(* The geometry and the position adjustment of the layer.                  *)
(***************************************************************************)
NoParams == [a \in {} |-> 0]

geom_point(aes_params) ==
    [kind |-> "point", REQUIRED_AES |-> {"x", "y"}, aes_params |-> aes_params]
geom_smooth(aes_params) ==
    [kind |-> "smooth", REQUIRED_AES |-> {"x", "y"}, aes_params |-> aes_params]
geom_rug(aes_params) ==
    [kind |-> "rug", REQUIRED_AES |-> {}, aes_params |-> aes_params]

\* geom_smooth.setup_data(data)
geom_smooth_setup_data(data) ==
    IF {"PANEL", "group", "x"} \subseteq DOMAIN data.cols
    THEN [exc |-> "none", data |-> SortValues(data, <<"PANEL", "group", "x">>)]
    ELSE [exc |-> "KeyError", data |-> data]

\* geom.setup_data(data)
geom_setup_data(geom, data) ==
    IF geom.kind = "smooth" THEN geom_smooth_setup_data(data)
    ELSE [exc |-> "none", data |-> data]

\* utils.check_required_aesthetics(required, present, name): the required
\* aesthetics that are missing
MissingAesthetics(required, present) == required \ present

\* layer.setup_data()
setup_data(l, registry) ==
    IF l.data.n = 0 THEN StageResult("none", l.data, registry, <<>>)
    ELSE LET g == geom_setup_data(l.geom, l.data)
             missing == MissingAesthetics(l.geom.REQUIRED_AES,
                                          DOMAIN g.data.cols \cup DOMAIN l.geom.aes_params)
         IN  IF g.exc # "none"
             THEN StageResult(g.exc, l.data, registry, <<"geom.setup_data">>)
             ELSE IF missing # {}
             THEN StageResult("PlotnineError", l.data, registry, <<"geom.setup_data">>)
             ELSE StageResult("none", g.data, registry, <<"geom.setup_data">>)

\* position.compute_layer(data, params, layout): position_identity leaves
\* the table alone, position_nudge moves x by params.x
position_compute_layer(position, data) ==
    IF position.kind = "nudge" /\ "x" \in DOMAIN data.cols
    THEN SetColumn(data, "x",
            Column(data.cols["x"].kind,
                   [i \in 1..data.n |-> data.cols["x"].vals[i] + position.x]))
    ELSE data

\* compute_position without the test for an empty table
compute_position_NoSkip(l, registry) ==
    StageResult("none", position_compute_layer(l.position, l.data), registry,
                <<"position.setup_params", "position.setup_data",
                  "position.compute_layer">>)

\* layer.compute_position(layout)
compute_position(l, registry) ==
    IF l.data.n = 0 THEN StageResult("none", l.data, registry, <<>>)
    ELSE StageResult("none", position_compute_layer(l.position, l.data), registry,
                     <<"position.setup_params", "position.setup_data",
                       "position.compute_layer">>)

(***************************************************************************)
(* One layer driven through the stages.  The raw table of the layer has    *)
(* the columns "a" (numeric), "b" (categorical, when present) and "PANEL". *)
(***************************************************************************)
\* the raw tables of at most MaxStageRows rows
RawTables ==
    UNION { { Table(n, cols) :
                cols \in { ("a" :> Column("continuous", a)
                            @@ "PANEL" :> Column("discrete", panel)) :
                                a \in [1..n -> 1..MaxVal], panel \in [1..n -> 1..MaxPanel] }
                         \cup
                         { ("a" :> Column("continuous", a)
                            @@ "b" :> Column("discrete", [i \in 1..n |-> 1 + (i % 2)])
                            @@ "PANEL" :> Column("discrete", panel)) :
                                a \in [1..n -> 1..MaxVal], panel \in [1..n -> 1..MaxPanel] } } :
            n \in 0..MaxStageRows }

SampleTable ==
    Table(3, "a" :> Column("continuous", <<2, 1, 1>>)
             @@ "b" :> Column("discrete", <<1, 2, 1>>)
             @@ "PANEL" :> Column("discrete", <<2, 1, 1>>))

NoRows ==
    Table(0, "a" :> Column("continuous", <<>>)
             @@ "b" :> Column("discrete", <<>>)
             @@ "PANEL" :> Column("discrete", <<>>))

\* the mappings of a layer over a table with the columns a and b
StageMappings ==
    { NoAes,
      "x" :> AtStart(Col("a")),
      "x" :> AtStart(Col("a")) @@ "color" :> AtStart(Col("b")),
      "x" :> AtStart(Col("a")) @@ "group" :> AtStart(Col("b")),
      "x" :> AtStart(Col("a")) @@ "y" :> AtStart(Col("a")),
      "x" :> AtStart(Col("a")) @@ "y" :> after_stat("prop"),
      "x" :> AtStart(Col("a")) @@ "y" :> after_stat("density"),
      "x" :> StartAndAfterStat(Col("a"), "count") }

\* mappings that give vectors in place of columns, for a layer without rows
VectorMappings == { "x" :> AtStart(Vec(<<2, 1>>)) }

Registries == { [a \in {} |-> "identity"], "y" :> "reverse", "x" :> "reverse" }

\* the layer as the build finds it after setup
BuiltLayer(data, mapping, stat, geom, position) ==
    [data |-> data, mapping |-> mapping, stat |-> stat, geom |-> geom,
     position |-> position, err |-> "none"]

StageInit ==
    /\ \/ \E t \in RawTables :
            /\ lyr = BuiltLayer(t,
                        IF "b" \in DOMAIN t.cols
                        THEN "x" :> AtStart(Col("a")) @@ "color" :> AtStart(Col("b"))
                        ELSE "x" :> AtStart(Col("a")),
                        stat_count(TRUE), geom_point(NoParams), [kind |-> "identity", x |-> 0])
            /\ scales = [a \in {} |-> "identity"]
       \/ \E t \in {SampleTable, NoRows},
             m \in StageMappings \cup VectorMappings,
             st \in { stat_identity(r) : r \in BOOLEAN } \cup { stat_count(r) : r \in BOOLEAN },
             g \in { geom_point(NoParams), geom_point("y" :> 1), geom_smooth(NoParams),
                     geom_rug(NoParams) },
             pos \in { [kind |-> "identity", x |-> 0], [kind |-> "nudge", x |-> 1] },
             reg \in Registries :
            /\ m \in VectorMappings => t.n = 0
            /\ lyr = BuiltLayer(t, m, st, g, pos)
            /\ scales = reg
    /\ calls = <<>>
    /\ stage_pc = "compute_aesthetics"
    /\ before = [stage |-> "setup", lyr |-> lyr, scales |-> scales]
    /\ SetupIdle
    /\ GroupIdle
    /\ LayersIdle
    /\ CopyIdle
    /\ CountIdle

\* one stage of the build: `r` is what the stage's method did to the layer
RunStage(name, next, r) ==
    /\ stage_pc = name
    /\ before' = [stage |-> name, lyr |-> lyr, scales |-> scales]
    /\ lyr' = [lyr EXCEPT !.data = r.data, !.err = r.exc]
    /\ scales' = r.scales
    /\ calls' = r.calls
    /\ stage_pc' = IF r.exc = "none" THEN next ELSE "failed"
    /\ UNCHANGED <<setupVars, groupVars, layersVars, copyVars, countVars>>

ComputeAesthetics ==
    RunStage("compute_aesthetics", "compute_statistic", compute_aesthetics(lyr, scales))

ComputeStatistic ==
    RunStage("compute_statistic", "map_statistic", compute_statistic(lyr, scales))

MapStatistic ==
    RunStage("map_statistic", "setup_data", map_statistic(lyr, scales))

SetupData ==
    RunStage("setup_data", "compute_position", setup_data(lyr, scales))

ComputePosition ==
    RunStage("compute_position", "done", compute_position(lyr, scales))

StageNext ==
    \/ ComputeAesthetics
    \/ ComputeStatistic
    \/ MapStatistic
    \/ SetupData
    \/ ComputePosition

SpecStages == StageInit /\ [][StageNext]_vars

(***************************************************************************)
(* The collection of layers (class Layers): every stage method is a loop   *)
(* over the list that applies the stage to each layer in turn.  The caller *)
(* runs the stage methods one after another in the order of StageOrder and *)
(* then draws.  An action is one turn of the loop of one method.           *)
(***************************************************************************)
MaxLayers == 2      \* layers of a collection

\* the stage methods of Layers in the order the build calls them
StageOrder ==
    <<"compute_aesthetics", "compute_statistic", "map_statistic", "transform",
      "train", "map", "compute_position", "finish_statistics">>

\* the method the caller runs after `name`
MethodAfter(name) ==
    LET k == CHOOSE j \in 1..Len(StageOrder) : StageOrder[j] = name
    IN  IF k < Len(StageOrder) THEN StageOrder[k + 1] ELSE "draw"

\* where the build is: in the loop of `name` at the layer i
At(name, i) == [method |-> name, idx |-> i]

\* the build taking every layer through all the stages before the next layer
LoopNext_LayerByLayer(name, i, n) ==
    IF name = "draw" THEN (IF i < n THEN At("draw", i + 1) ELSE At("done", 0))
    ELSE IF MethodAfter(name) # "draw" THEN At(MethodAfter(name), i)
    ELSE IF i < n THEN At(StageOrder[1], i + 1)
    ELSE At("draw", 1)

\* `for l in self:` in a method of Layers: after the layer i of n comes the
\* next layer, and after the last layer the method returns to the caller
LoopNext(name, i, n) ==
    IF i < n THEN At(name, i + 1)
    ELSE IF name = "draw" THEN At("done", 0)
    ELSE At(MethodAfter(name), 1)

\* scales.train_df(df) and scales.map_df(df) give back the table
TrainDf(registry, df) == df
MapDf(registry, df) == df

\* dict.update: the entries of `other` replace those of `params`
Update(params, other) ==
    [k \in DOMAIN params \cup DOMAIN other |->
        IF k \in DOMAIN other THEN other[k] ELSE params[k]]

\* the parameters of layer.draw with the parameters of the statistic put in
\* after the z-order and the raster flag
draw_params_StatLast(l) ==
    Update(Update(Update(l.geom.params, "zorder" :> l.zorder), "raster" :> l.raster),
           l.stat.params)

\* layer.draw, lines 362-365: the parameters handed to geom.draw_layer
draw_params(l) ==
    LET params == Update(l.geom.params, l.stat.params)
    IN  Update(Update(params, "zorder" :> l.zorder), "raster" :> l.raster)

\* geom.handle_na(data): the rows with a missing value are dropped; the
\* tables of the model have none
handle_na(data) == data

\* a layer of a collection: the layer as setup left it, with its raster
\* flag, its z-order and the parameters of its geometry and its statistic
CollectionLayer(l, raster, geom_params, stat_params) ==
    [data |-> l.data, mapping |-> l.mapping,
     stat |-> [l.stat EXCEPT !.params = Update(l.stat.params, stat_params)],
     geom |-> [kind |-> l.geom.kind, REQUIRED_AES |-> l.geom.REQUIRED_AES,
               aes_params |-> l.geom.aes_params, params |-> geom_params],
     position |-> l.position, err |-> "none",
     raster |-> raster, zorder |-> 0]

NoKeys == [k \in {} |-> 0]

\* the layers a collection is made of: one counting, one plotting its rows
\* as they are, one without rows and one whose statistic rejects its y
LayerChoices ==
    LET identity == [kind |-> "identity", x |-> 0]
        counted == BuiltLayer(SampleTable, "x" :> AtStart(Col("a")),
                              stat_count(TRUE), geom_point(NoParams), identity)
        plain == BuiltLayer(SampleTable,
                            "x" :> AtStart(Col("a")) @@ "color" :> AtStart(Col("b")),
                            stat_identity(FALSE), geom_rug(NoParams),
                            [kind |-> "nudge", x |-> 1])
        empty == BuiltLayer(NoRows, "x" :> AtStart(Col("a")) @@ "y" :> AtStart(Col("a")),
                            stat_identity(FALSE), geom_point(NoParams), identity)
        rejected == BuiltLayer(SampleTable,
                               "x" :> AtStart(Col("a")) @@ "y" :> AtStart(Col("a")),
                               stat_count(FALSE), geom_point(NoParams), identity)
    IN  { CollectionLayer(counted, FALSE, NoKeys, NoKeys),
          CollectionLayer(counted, TRUE, "zorder" :> 9, NoKeys),
          CollectionLayer(plain, TRUE, NoKeys, "zorder" :> 7 @@ "raster" :> FALSE),
          CollectionLayer(plain, FALSE, "zorder" :> 9 @@ "raster" :> TRUE, "zorder" :> 7),
          CollectionLayer(empty, FALSE, "raster" :> TRUE, NoKeys),
          CollectionLayer(rejected, FALSE, NoKeys, NoKeys) }

LayersInit ==
    /\ \E n \in 1..MaxLayers : layers \in [1..n -> LayerChoices]
    /\ plot_scales \in { [a \in {} |-> "identity"], "x" :> "reverse" }
    /\ method = StageOrder[1]
    /\ idx = 1
    /\ log = <<>>
    /\ drawn = <<>>
    /\ before = <<>>
    /\ SetupIdle
    /\ GroupIdle
    /\ StageIdle
    /\ CopyIdle
    /\ CountIdle

\* one turn of the loop of the stage method `name`: `r` is what the stage
\* did to the layer at idx
LayersStage(name, r) ==
    /\ method = name
    /\ layers' = [layers EXCEPT ![idx] = [@ EXCEPT !.data = r.data, !.err = r.exc]]
    /\ plot_scales' = r.scales
    /\ log' = Append(log, [method |-> name, layer |-> idx])
    /\ IF r.exc = "none"
       THEN /\ method' = LoopNext(name, idx, Len(layers)).method
            /\ idx' = LoopNext(name, idx, Len(layers)).idx
       ELSE /\ method' = "failed"
            /\ idx' = idx
    /\ UNCHANGED <<drawn, before, setupVars, groupVars, stageVars, copyVars, countVars>>

\* Layers.compute_aesthetics(plot)
LayersComputeAesthetics ==
    /\ method = "compute_aesthetics"
    /\ LayersStage("compute_aesthetics", compute_aesthetics(layers[idx], plot_scales))

\* Layers.compute_statistic(layout)
LayersComputeStatistic ==
    /\ method = "compute_statistic"
    /\ LayersStage("compute_statistic", compute_statistic(layers[idx], plot_scales))

\* Layers.map_statistic(plot)
LayersMapStatistic ==
    /\ method = "map_statistic"
    /\ LayersStage("map_statistic", map_statistic(layers[idx], plot_scales))

\* Layers.transform(scales)
LayersTransform ==
    /\ method = "transform"
    /\ LayersStage("transform",
            StageResult("none", TransformDf(plot_scales, layers[idx].data), plot_scales,
                        <<"scales.transform_df">>))

\* Layers.train(scales)
LayersTrain ==
    /\ method = "train"
    /\ LayersStage("train",
            StageResult("none", TrainDf(plot_scales, layers[idx].data), plot_scales,
                        <<"scales.train_df">>))

\* Layers.map(scales)
LayersMap ==
    /\ method = "map"
    /\ LayersStage("map",
            StageResult("none", MapDf(plot_scales, layers[idx].data), plot_scales,
                        <<"scales.map_df">>))

\* Layers.compute_position(layout)
LayersComputePosition ==
    /\ method = "compute_position"
    /\ LayersStage("compute_position", compute_position(layers[idx], plot_scales))

\* Layers.finish_statistics(): what stat.finish_layer returns is dropped
LayersFinishStatistics ==
    /\ method = "finish_statistics"
    /\ LayersStage("finish_statistics",
            StageResult("none", layers[idx].data, plot_scales, <<"stat.finish_layer">>))

\* Layers.draw(layout, coord): one turn of its loop, layer.draw included
LayersDraw ==
    /\ method = "draw"
    /\ LET l == [layers[idx] EXCEPT !.zorder = idx]
       IN  /\ layers' = [layers EXCEPT ![idx] = [l EXCEPT !.data = handle_na(l.data)]]
           /\ drawn' = Append(drawn, [layer |-> idx, zorder |-> l.zorder,
                                      params |-> draw_params(l)])
    /\ log' = Append(log, [method |-> "draw", layer |-> idx])
    /\ method' = LoopNext("draw", idx, Len(layers)).method
    /\ idx' = LoopNext("draw", idx, Len(layers)).idx
    /\ UNCHANGED <<plot_scales, before, setupVars, groupVars, stageVars, copyVars, countVars>>

LayersNext ==
    \/ LayersComputeAesthetics
    \/ LayersComputeStatistic
    \/ LayersMapStatistic
    \/ LayersTransform
    \/ LayersTrain
    \/ LayersMap
    \/ LayersComputePosition
    \/ LayersFinishStatistics
    \/ LayersDraw

SpecLayers == LayersInit /\ [][LayersNext]_vars

(***************************************************************************)
(* deepcopy(layer).  Every attribute of a layer holds an object; an object *)
(* has an identity (its position in `objects`) and a value, and is mutable *)
(* (a geom, a stat, a mapping, a dataframe) or not (None, a flag, an       *)
(* integer).  A layer is the function from its attributes to the           *)
(* identities of the objects they hold.                                    *)
(***************************************************************************)
MaxEdits == 2       \* mutations of the layer and of its copy after the copy

Object(mutable, val) == [mutable |-> mutable, val |-> val]

\* layer.__init__, and layer.setup when the layer has its data attribute:
\* the objects of a layer and the attributes that hold them
LayerObjects(has_source, has_data) ==
    <<Object(TRUE, 0), Object(TRUE, 0), Object(TRUE, 0), Object(TRUE, 0),
      Object(has_source, 0), Object(FALSE, 0), Object(FALSE, 0)>>
    \o (IF has_data THEN <<Object(TRUE, 0)>> ELSE <<>>)

LayerAttributes(has_data) ==
    ("geom" :> 1 @@ "stat" :> 2 @@ "mapping" :> 3 @@ "position" :> 4
     @@ "_data" :> 5 @@ "raster" :> 6 @@ "zorder" :> 7)
    @@ (IF has_data THEN "data" :> 8 ELSE [a \in {} |-> 0])

\* copy.deepcopy(item, memo): an immutable object is its own copy; a mutable
\* object is copied once, the copy of the object i of k being the object k + i
DeepCopyOf(objs, i) == IF objs[i].mutable THEN Len(objs) + i ELSE i

\* a copy of the layer that copies no attribute
layer_deepcopy_Shallow(l, objs) ==
    [layer |-> l, objects |-> objs \o objs]

\* layer.__deepcopy__(memo): the copy of the layer and the objects afterwards
layer_deepcopy(l, objs) ==
    [layer |-> [key \in DOMAIN l |->
                    IF key = "data" THEN l[key] ELSE DeepCopyOf(objs, l[key])],
     objects |-> objs \o objs]

\* what a layer shows: the object and the value under every attribute
View(l) == [a \in DOMAIN l |-> [obj |-> l[a], val |-> objects[l[a]].val]]

\* the layer `who`
LayerNamed(who) == IF who = "original" THEN original ELSE duplicate

\* what the last operation did, and what the two layers showed before it
Operation(op, who, attr) ==
    [op |-> op, who |-> who, attr |-> attr,
     original |-> View(original),
     duplicate |-> IF copy_pc = "copied" THEN View(duplicate) ELSE <<>>]

CopyInit ==
    /\ \E has_source \in BOOLEAN, has_data \in BOOLEAN :
            /\ objects = LayerObjects(has_source, has_data)
            /\ original = LayerAttributes(has_data)
    /\ duplicate = <<>>
    /\ copy_pc = "new"
    /\ edits = 0
    /\ before = <<>>
    /\ SetupIdle
    /\ GroupIdle
    /\ StageIdle
    /\ LayersIdle
    /\ CountIdle

\* deepcopy(layer)
DeepCopy ==
    /\ copy_pc = "new"
    /\ LET c == layer_deepcopy(original, objects)
       IN  /\ duplicate' = c.layer
           /\ objects' = c.objects
    /\ copy_pc' = "copied"
    /\ before' = Operation("deepcopy", "original", "-")
    /\ UNCHANGED <<original, edits, setupVars, groupVars, stageVars, layersVars, countVars>>

\* the object an attribute of one of the two layers holds is changed in
\* place, as in `del self.mapping[ae]` or `self.geom.environment = ...`
MutateInPlace ==
    /\ copy_pc = "copied"
    /\ edits < MaxEdits
    /\ \E who \in {"original", "duplicate"} :
        \E attr \in DOMAIN LayerNamed(who) :
            /\ objects[LayerNamed(who)[attr]].mutable
            /\ objects' = [objects EXCEPT ![LayerNamed(who)[attr]].val = @ + 1]
            /\ before' = Operation("mutate", who, attr)
    /\ edits' = edits + 1
    /\ UNCHANGED <<original, duplicate, copy_pc,
                   setupVars, groupVars, stageVars, layersVars, countVars>>

\* an attribute of one of the two layers is given a new object, as in
\* `l.zorder = i` or `self.data = data`
Assign ==
    /\ copy_pc = "copied"
    /\ edits < MaxEdits
    /\ \E who \in {"original", "duplicate"} :
        \E attr \in DOMAIN LayerNamed(who) :
            LET old == objects[LayerNamed(who)[attr]]
                fresh == Len(objects) + 1
            IN  /\ objects' = Append(objects, Object(old.mutable, old.val + 1))
                /\ IF who = "original"
                   THEN /\ original' = [original EXCEPT ![attr] = fresh]
                        /\ UNCHANGED duplicate
                   ELSE /\ duplicate' = [duplicate EXCEPT ![attr] = fresh]
                        /\ UNCHANGED original
                /\ before' = Operation("assign", who, attr)
    /\ edits' = edits + 1
    /\ UNCHANGED <<copy_pc, setupVars, groupVars, stageVars, layersVars, countVars>>

CopyNext ==
    \/ DeepCopy
    \/ MutateInPlace
    \/ Assign

SpecCopy == CopyInit /\ [][CopyNext]_vars

(***************************************************************************)
(* stat_count on its own: setup_params on the whole table, then            *)
(* compute_group on the rows of every group.  The table has the columns x  *)
(* and group, and weight and y when they are mapped.                       *)
(***************************************************************************)
MaxCountRows == 3   \* rows of a table handed to stat_count
MaxX == 3           \* values of x are 1..MaxX

\* the weights a row can have
Weights == {-1, 0, 1}

\* a width set by the user, in tenths
ConfiguredWidth == 5

\* the positions of the rows of the group g
RowsOfGroup(data, g) ==
    SelectSeq([i \in 1..data.n |-> i], LAMBDA i : data.cols["group"].vals[i] = g)

\* the groups of the table
GroupsOf(data) == { data.cols["group"].vals[i] : i \in 1..data.n }

\* the table of n rows with the column x, the group of every row, and the
\* columns weight and y unless absent
CountTable(n, x, group, weight, y) ==
    TableOf(n, [c \in {"x", "group", "weight", "y"} |->
                    CASE c = "x" -> Column("continuous", x)
                      [] c = "group" -> Column("continuous", group)
                      [] c = "weight" -> weight
                      [] OTHER -> y])

\* the tables are split into one or two groups; a table comes with any
\* weights, or without weights and then with or without y as a column, y as
\* a parameter and a width set by the user
CountInit ==
    /\ \E n \in 1..MaxCountRows :
        \E x \in [1..n -> 1..MaxX],
           group \in { [i \in 1..n |-> 0], [i \in 1..n |-> i % 2] },
           weight \in { Column("continuous", w) : w \in [1..n -> Weights] } \cup {Absent},
           y \in {Column("continuous", [i \in 1..n |-> 1]), Absent},
           y_param \in BOOLEAN,
           width \in {WidthUnset, ConfiguredWidth} :
            /\ weight # Absent => (y = Absent /\ ~y_param /\ width = WidthUnset)
            /\ count_in = [data |-> CountTable(n, x, group, weight, y),
                           params |-> [width |-> width, y |-> y_param]]
    /\ count_out = <<>>
    /\ count_pc = "call"
    /\ before = <<>>
    /\ SetupIdle
    /\ GroupIdle
    /\ StageIdle
    /\ LayersIdle
    /\ CopyIdle

\* params = stat.setup_params(data), then compute_group(group data, scales,
\* **params) for every group of the table
CallStatCount ==
    /\ count_pc = "call"
    /\ LET p == stat_count_setup_params(count_in.params, count_in.data)
       IN  count_out' =
                [params |-> p.params,
                 groups |-> [g \in GroupsOf(count_in.data) |->
                                stat_count_compute_group(count_in.data,
                                    RowsOfGroup(count_in.data, g), p.params)]]
    /\ count_pc' = "ret"
    /\ UNCHANGED <<count_in, before, setupVars, groupVars, stageVars, layersVars, copyVars>>

CountNext == CallStatCount

SpecCount == CountInit /\ [][CountNext]_vars

(***************************************************************************)
(* Claims about layer.setup, checked under SpecSetup.                      *)
(***************************************************************************)
\* the plot's data as _make_layer_data resolves it, in the state setup began in
ResolvedPlot == ResolvePlotData(plot.data, FirstFresh)

\* C1: setup resolves the working table with the precedence explicit layer
\* data > callable layer data applied to the plot data > inherited plot data:
\* a layer's own table gives a copy of that table whatever the plot data is,
\* a callable f gives f(plot data), and only a layer without data gets a copy
\* of the plot data (an empty table when the plot has none).
C1_DataPrecedence ==
    pc = "setup" =>
        CASE self.raw.kind = "DataFrame" ->
                /\ self.data.kind = "DataFrame"
                /\ self.data.rows = self.raw.rows
                /\ self.data.obj # self.raw.obj
          [] self.raw.kind = "callable" ->
                self.data = CallLayerData(self.raw, ResolvedPlot.val, ResolvedPlot.heap).val
          [] self.raw.kind = "None" ->
                /\ self.data.kind = ResolvedPlot.val.kind
                /\ self.data.rows = ResolvedPlot.val.rows
                /\ self.data.obj # ResolvedPlot.val.obj
                /\ plot.data.kind = "None" => self.data = DataFrame(FirstFresh + 1, <<>>)
                /\ plot.data.kind = "DataFrame" => self.data.rows = plot.data.rows
          [] OTHER -> TRUE

\* a layer with its own table was set up on a plot holding a different table
C1_Witness ==
    /\ pc = "setup"
    /\ self.raw.kind = "DataFrame"
    /\ plot.data.kind = "DataFrame"
    /\ plot.data.rows # self.raw.rows
    /\ self.data.rows = self.raw.rows

\* the value setup resolves as the layer's data
ResolvedLayerData ==
    CASE self.raw.kind = "None" -> ResolvedPlot
      [] self.raw.kind = "callable" ->
            CallLayerData(self.raw, ResolvedPlot.val, ResolvedPlot.heap)
      [] OTHER -> Ret(self.raw, ResolvedPlot.heap)

\* C2: if the value resolved as the layer's data is not a table and not
\* convertible to one, setup fails with the library's data-type error (the
\* only error class layer.py raises for it is PlotnineError); it never
\* completes with a non-table as the working table and never fails with
\* another kind of error.
C2_DataTypeError ==
    (/\ pc \in {"setup", "failed"}
     /\ ResolvedLayerData.exc = "none"
     /\ ResolvedLayerData.val.kind \notin {"DataFrame", "convertible"})
        => (pc = "failed" /\ raised = "PlotnineError")

\* C3 as stated: after setup every plot key the layer does not bind is present
\* when inherit_aes is true, every layer key keeps the layer's entry, and no
\* key of geom.aes_params ('group' included) is a key of the mapping.  (The
\* first two are read for the keys that are not literal parameters.)
C3_NoLiteralParamIsMapped ==
    pc = "setup" =>
        LET literal == DOMAIN self.aes_params
        IN  /\ self.inherit_aes =>
                (DOMAIN plot.mapping \ DOMAIN before.mapping) \ literal
                    \subseteq DOMAIN self.mapping
            /\ \A k \in DOMAIN before.mapping \ literal :
                    k \in DOMAIN self.mapping /\ self.mapping[k] = before.mapping[k]
            /\ DOMAIN self.mapping \cap literal = {}

\* C3 amended: the keys of the resolved mapping are the layer's keys, with the
\* plot's keys when inherit_aes is true, less the keys of geom.aes_params,
\* plus 'group' when 'group' is a literal parameter; a layer key keeps the
\* layer's entry, an inherited key the plot's, and 'group' set as a literal
\* parameter is bound to stage(start=...) of that literal.
C3_MappingResolved ==
    pc = "setup" =>
        LET literal == DOMAIN self.aes_params
            child == before.mapping
            parent == plot.mapping
            candidates == DOMAIN child \cup (IF self.inherit_aes THEN DOMAIN parent ELSE {})
        IN  /\ DOMAIN self.mapping =
                    (candidates \ literal) \cup (literal \cap {"group"})
            /\ \A k \in DOMAIN child \ literal : self.mapping[k] = child[k]
            /\ \A k \in (DOMAIN self.mapping \ DOMAIN child) \ literal :
                    self.inherit_aes /\ self.mapping[k] = parent[k]
            /\ DOMAIN self.mapping \cap (literal \ {"group"}) = {}
            /\ "group" \in literal =>
                    /\ self.mapping["group"].stage
                    /\ self.mapping["group"].start.text \in
                            { self.aes_params["group"].text,
                              "\"" \o self.aes_params["group"].text \o "\"" }

\* setup inherited a plot key, kept a layer key over the plot's, and dropped
\* a mapped aesthetic that is also a literal parameter
C3_Witness ==
    /\ pc = "setup"
    /\ self.inherit_aes
    /\ "x" \in DOMAIN plot.mapping /\ "x" \notin DOMAIN before.mapping
    /\ "x" \in DOMAIN self.mapping
    /\ "color" \in DOMAIN before.mapping /\ "color" \in DOMAIN self.aes_params
    /\ "color" \notin DOMAIN self.mapping
    /\ "group" \in DOMAIN before.mapping /\ "group" \in DOMAIN plot.mapping
    /\ "group" \notin DOMAIN self.aes_params
    /\ self.mapping["group"] = before.mapping["group"]

(***************************************************************************)
(* Claims about add_group, checked under SpecGroup.                        *)
(***************************************************************************)
GroupOf(t) == t.cols["group"].vals

\* the table with its group column taken away
WithoutGroup(t) == [t EXCEPT !.cols = Restrict(t.cols, DOMAIN t.cols \ {"group"})]

\* rows i and j of t agree on every column of `names`
Agree(t, names, i, j) == \A c \in names : t.cols[c].vals[i] = t.cols[c].vals[j]

\* C4: for a non-empty table with an explicit group column, add_group
\* replaces the column by a dense integer re-coding of its values alone:
\* equal values get equal codes, different values different codes, there are
\* as many codes as values, no other column influences the codes, and the
\* rows stay in their order.
C4_ExplicitGroupRecoded ==
    (gpc = "ret" /\ gin.n > 0 /\ "group" \in DOMAIN gin.cols) =>
        LET codes == { GroupOf(gout)[i] : i \in 1..gout.n }
            values == { GroupOf(gin)[i] : i \in 1..gin.n }
        IN  /\ gout.n = gin.n
            /\ DOMAIN gout.cols = DOMAIN gin.cols
            /\ \A i, j \in 1..gin.n :
                    (GroupOf(gin)[i] = GroupOf(gin)[j]) <=> (GroupOf(gout)[i] = GroupOf(gout)[j])
            /\ Cardinality(codes) = Cardinality(values)
            /\ \A a, b \in codes : \A m \in a..b : m \in codes
            /\ WithoutGroup(gout) = WithoutGroup(gin)

\* rows that share a group value but differ in a discrete scaled column, and
\* rows that differ in the group value, were re-coded
C4_Witness ==
    /\ gpc = "ret"
    /\ gin.n >= 3
    /\ "group" \in DOMAIN gin.cols
    /\ "color" \in DOMAIN gin.cols /\ gin.cols["color"].kind = "discrete"
    /\ GroupOf(gin)[1] = GroupOf(gin)[2] /\ gin.cols["color"].vals[1] # gin.cols["color"].vals[2]
    /\ GroupOf(gin)[1] # GroupOf(gin)[3]
    /\ GroupOf(gout)[1] = GroupOf(gout)[2] /\ GroupOf(gout)[1] # GroupOf(gout)[3]

\* C5 as stated: add_group applied to an empty table returns a table with a
\* group column.
C5_EmptyTableGetsGroup ==
    (gpc = "ret" /\ gin.n = 0) => "group" \in DOMAIN gout.cols

\* C5 amended: add_group returns an empty table as it is: no group column is
\* added to it, and it has one only if it had one before.
C5_EmptyTableUnchanged ==
    (gpc = "ret" /\ gin.n = 0) => gout = gin

\* an empty table with columns but no group column went through add_group
C5_Witness ==
    /\ gpc = "ret"
    /\ gin.n = 0
    /\ DOMAIN gin.cols # {}
    /\ "group" \notin DOMAIN gin.cols
    /\ "group" \notin DOMAIN gout.cols

\* the discrete-typed columns with hashable values
DiscreteNames(t) ==
    { c \in DOMAIN t.cols : ArrayKindDiscrete(t.cols[c]) /\ Hashable(t.cols[c]) }

\* the group ids of gout are the interaction of the columns `names` of gin
GroupIsInteractionOf(names) ==
    IF names = {}
    THEN \A i \in 1..gin.n : GroupOf(gout)[i] = NO_GROUP
    ELSE /\ \A i \in 1..gin.n : GroupOf(gout)[i] # NO_GROUP
         /\ \A i, j \in 1..gin.n :
                (GroupOf(gout)[i] = GroupOf(gout)[j]) <=> Agree(gin, names, i, j)

\* C6 as stated: without an explicit group column the group id is the
\* interaction of the discrete columns that are not scaled aesthetics.
C6_ScaledColumnsIgnored ==
    (gpc = "ret" /\ gin.n > 0 /\ "group" \notin DOMAIN gin.cols) =>
        GroupIsInteractionOf(DiscreteNames(gin) \ SCALED_AESTHETICS)

\* C6 amended: without an explicit group column the group id is the
\* interaction of the discrete columns (with hashable values) that are
\* scaled aesthetics; a discrete column that is not a scaled aesthetic does
\* not contribute.
C6_ScaledColumnsGroup ==
    (gpc = "ret" /\ gin.n > 0 /\ "group" \notin DOMAIN gin.cols) =>
        GroupIsInteractionOf(DiscreteNames(gin) \cap SCALED_AESTHETICS)

\* rows that differ in a discrete scaled column got different groups, rows
\* that differ only in a discrete column that is not scaled got the same
C6_Witness ==
    /\ gpc = "ret"
    /\ gin.n >= 3
    /\ DOMAIN gin.cols = {"color", "label"}
    /\ gin.cols["color"].kind = "discrete" /\ gin.cols["label"].kind = "discrete"
    /\ gin.cols["color"].vals[1] = gin.cols["color"].vals[2]
    /\ gin.cols["label"].vals[1] # gin.cols["label"].vals[2]
    /\ gin.cols["color"].vals[1] # gin.cols["color"].vals[3]
    /\ GroupOf(gout)[1] = GroupOf(gout)[2]
    /\ GroupOf(gout)[1] # GroupOf(gout)[3]

\* C7: in a non-empty table with no discrete column and no explicit group
\* column every row gets the sentinel NO_GROUP.
C7_NoDiscreteNoGroup ==
    (/\ gpc = "ret"
     /\ gin.n > 0
     /\ "group" \notin DOMAIN gin.cols
     /\ \A c \in DOMAIN gin.cols : ~ArrayKindDiscrete(gin.cols[c]))
        => /\ "group" \in DOMAIN gout.cols
           /\ \A i \in 1..gout.n : GroupOf(gout)[i] = NO_GROUP

\* a table of several rows and only continuous columns got NO_GROUP
C7_Witness ==
    /\ gpc = "ret"
    /\ gin.n >= 2
    /\ DOMAIN gin.cols = {"color", "label"}
    /\ \A c \in DOMAIN gin.cols : gin.cols[c].kind = "continuous"
    /\ \A i \in 1..gout.n : GroupOf(gout)[i] = NO_GROUP

(***************************************************************************)
(* Claims about the stages, checked under SpecStages.                      *)
(***************************************************************************)
\* the stage `name` has just run on the layer and ended without an exception
Ran(name) == before.stage = name /\ lyr.err = "none"

\* the position in table t of the row with the index label `label`
PositionOf(t, label) == CHOOSE k \in 1..t.n : t.index[k] = label

\* C8: after compute_aesthetics the working table is ordered by
\* non-decreasing panel id, it is a permutation of the evaluated rows, and two
\* rows of the same panel are in the order they had before the sort.
C8_StableSortByPanel ==
    Ran("compute_aesthetics") =>
        LET unsorted == evaluated_aesthetics(before.lyr)
            data == lyr.data
            panel == data.cols["PANEL"].vals
        IN  /\ data.n = unsorted.n
            /\ DOMAIN data.cols = DOMAIN unsorted.cols
            /\ \A p, q \in 1..data.n : p < q => panel[p] <= panel[q]
            /\ { data.index[p] : p \in 1..data.n } = { unsorted.index[k] : k \in 1..unsorted.n }
            /\ \A p \in 1..data.n : \A c \in DOMAIN data.cols :
                    data.cols[c].vals[p]
                        = unsorted.cols[c].vals[PositionOf(unsorted, data.index[p])]
            /\ \A p, q \in 1..data.n :
                    (p < q /\ panel[p] = panel[q]) =>
                        PositionOf(unsorted, data.index[p]) < PositionOf(unsorted, data.index[q])

\* a table whose rows were out of panel order was sorted, and two rows of
\* one panel that differ were kept in their order
C8_Witness ==
    /\ Ran("compute_aesthetics")
    /\ lyr.data.n >= 3
    /\ before.lyr.data.n = lyr.data.n
    /\ "x" \in DOMAIN lyr.data.cols
    /\ before.lyr.data.cols["PANEL"].vals[1] > before.lyr.data.cols["PANEL"].vals[2]
    /\ \E p \in 1..(lyr.data.n - 1) :
            /\ lyr.data.cols["PANEL"].vals[p] = lyr.data.cols["PANEL"].vals[p + 1]
            /\ lyr.data.cols["x"].vals[p] # lyr.data.cols["x"].vals[p + 1]
            /\ lyr.data.index[p] < lyr.data.index[p + 1]

SkippingStages == {"compute_statistic", "map_statistic", "setup_data", "compute_position"}

\* C9: on a layer whose working table is empty, compute_statistic,
\* map_statistic, setup_data and compute_position return without invoking a
\* hook of the statistic, the geometry, the position or the scale registry,
\* and leave the working table and the registry as they were.
C9_EmptyTableSkipsStage ==
    (before.stage \in SkippingStages /\ before.lyr.data.n = 0) =>
        /\ calls = <<>>
        /\ lyr.err = "none"
        /\ lyr.data = before.lyr.data
        /\ scales = before.scales

\* a layer with an empty table went through the four stages, the last of
\* them with a position adjustment that moves rows
C9_Witness ==
    /\ before.stage = "compute_position"
    /\ before.lyr.data.n = 0
    /\ before.lyr.position.kind = "nudge"
    /\ before.lyr.stat.kind = "count"
    /\ stage_pc = "done"

\* the calculated expressions map_statistic evaluates for the layer l
CalculatedOf(l) == Calculated(Inherit(l.mapping, l.stat.DEFAULT_AES))

\* C10: after map_statistic on a non-empty table with at least one calculated
\* expression evaluated, the columns of the working table are those of the
\* statistic's output and the newly evaluated ones; a column in both has the
\* newly evaluated values (retransformed through its scale when the statistic
\* asks for it), a column of the statistic's output alone keeps its values,
\* and every newly evaluated aesthetic is in the scale registry.
C10_ComputedColumnsWin ==
    (Ran("map_statistic") /\ before.lyr.data.n > 0 /\ CalculatedOf(before.lyr) # NoAes) =>
        LET old == before.lyr.data
            exprs == CalculatedOf(before.lyr)
            evaluated(a, i) == old.cols[exprs[a].name].vals[i]
            reversed(a) == /\ before.lyr.stat.retransform
                           /\ a \in DOMAIN before.scales
                           /\ before.scales[a] = "reverse"
        IN  /\ DOMAIN lyr.data.cols = DOMAIN old.cols \cup DOMAIN exprs
            /\ lyr.data.n = old.n
            /\ \A a \in DOMAIN exprs : \A i \in 1..old.n :
                    lyr.data.cols[a].vals[i] =
                        IF ~reversed(a) THEN evaluated(a, i)
                        ELSE IF old.cols[exprs[a].name].kind = "ratio"
                        THEN [num |-> 0 - evaluated(a, i).num, den |-> evaluated(a, i).den]
                        ELSE 0 - evaluated(a, i)
            /\ \A c \in DOMAIN old.cols \ DOMAIN exprs : lyr.data.cols[c] = old.cols[c]
            /\ DOMAIN exprs \subseteq DOMAIN scales

\* x was in the statistic's output and was evaluated anew from count with
\* other values, while count kept its values
C10_Witness ==
    /\ Ran("map_statistic")
    /\ before.lyr.data.n > 0
    /\ "x" \in DOMAIN CalculatedOf(before.lyr)
    /\ "x" \in DOMAIN before.lyr.data.cols
    /\ lyr.data.cols["x"].vals = before.lyr.data.cols["count"].vals
    /\ lyr.data.cols["x"].vals # before.lyr.data.cols["x"].vals
    /\ lyr.data.cols["count"] = before.lyr.data.cols["count"]
    /\ "y" \in DOMAIN scales /\ "y" \notin DOMAIN before.scales

\* the required aesthetics of the layer l that are neither a column of its
\* table nor a literal parameter of its geometry
MissingOf(l) ==
    l.geom.REQUIRED_AES \ (DOMAIN l.data.cols \cup DOMAIN l.geom.aes_params)

\* C11: on a layer with a non-empty working table, setup_data fails with the
\* configuration error (PlotnineError) of check_required_aesthetics when a
\* required aesthetic of the geometry is neither a column nor a literal
\* parameter, whatever the geometry, and leaves the working table as it was;
\* when none is missing it succeeds and the working table is the output of
\* the geometry's hook.
C11_MissingAestheticFails ==
    (before.stage = "setup_data" /\ before.lyr.data.n > 0) =>
        IF MissingOf(before.lyr) # {}
        THEN /\ lyr.err = "PlotnineError"
             /\ lyr.data = before.lyr.data
        ELSE /\ lyr.err = "none"
             /\ lyr.data = geom_setup_data(before.lyr.geom, before.lyr.data).data

(***************************************************************************)
(* Claims about the collection of layers, checked under SpecLayers.        *)
(***************************************************************************)
\* the number of the stage method `name` in the order of the build
StageNumber(name) == CHOOSE k \in 1..Len(StageOrder) : StageOrder[k] = name

\* the stage `name` ran on the layer i before the q-th entry of the log
RanBefore(name, i, q) ==
    \E p \in 1..(q - 1) : log[p] = [method |-> name, layer |-> i]

\* C12: every stage method of Layers is a barrier.  When a layer runs a
\* stage, the layers before it in the collection have run that stage, and
\* every layer of the collection has run the stage before it; and once the
\* build is past compute_aesthetics, the aesthetics every layer evaluates
\* are in the scale registry.
C12_StagesAreBarriers ==
    /\ \A q \in 1..Len(log) :
            log[q].method # "draw" =>
                /\ \A i \in 1..(log[q].layer - 1) : RanBefore(log[q].method, i, q)
                /\ StageNumber(log[q].method) > 1 =>
                        \A i \in 1..Len(layers) :
                            RanBefore(StageOrder[StageNumber(log[q].method) - 1], i, q)
    /\ (\/ method \notin {"compute_aesthetics", "failed"}
        \/ \E q \in 1..Len(log) : log[q].method # "compute_aesthetics")
            => \A i \in 1..Len(layers) :
                    DOMAIN Starting(layers[i].mapping) \subseteq DOMAIN plot_scales

\* two different layers went through all the stages, the first of them
\* registering an aesthetic the second does not have
C12_Witness ==
    /\ method = "draw"
    /\ Len(layers) >= 2
    /\ Len(log) = Len(StageOrder) * Len(layers)
    /\ layers[1].stat.kind # layers[2].stat.kind
    /\ DOMAIN Starting(layers[1].mapping) # DOMAIN Starting(layers[2].mapping)
    /\ log[Len(layers) + 1] = [method |-> "compute_statistic", layer |-> 1]

\* C13: Layers.draw gives the i-th layer the z-order i before it draws it,
\* geom.draw_layer gets zorder = i and raster = the layer's flag whatever
\* the parameters of the geometry and of the statistic hold under these
\* keys, and a layer that has not been drawn has the z-order 0.
C13_DrawOrder ==
    /\ \A k \in 1..Len(drawn) :
            /\ drawn[k].layer = k
            /\ drawn[k].zorder = k
            /\ drawn[k].params["zorder"] = k
            /\ drawn[k].params["raster"] = layers[k].raster
    /\ \A i \in 1..Len(layers) :
            layers[i].zorder = IF i <= Len(drawn) THEN i ELSE 0

\* a second layer was drawn whose geometry and statistic both carry a
\* zorder of their own and whose geometry carries another raster flag
C13_Witness ==
    /\ method = "done"
    /\ Len(drawn) >= 2
    /\ "zorder" \in DOMAIN layers[2].geom.params
    /\ "zorder" \in DOMAIN layers[2].stat.params
    /\ "raster" \in DOMAIN layers[2].geom.params
    /\ layers[2].geom.params["raster"] # layers[2].raster
    /\ drawn[2].params["zorder"] = 2
    /\ drawn[2].params["raster"] = layers[2].raster
    /\ layers[1].zorder = 1

(***************************************************************************)
(* Claims about deepcopy(layer), checked under SpecCopy.                   *)
(***************************************************************************)
\* C14: the deep copy of a layer holds the very object the original holds
\* as its working table (data), and under every other attribute a copy with
\* the same value that is another object whenever the object can be changed
\* at all; so a change made through a non-data attribute of one of the two
\* layers, in place or by assignment, leaves what the other layer shows as
\* it was, while a change of the shared table in place shows in both.
C14_CopySharesOnlyData ==
    copy_pc = "copied" =>
        /\ before.op = "deepcopy" =>
                /\ DOMAIN duplicate = DOMAIN original
                /\ "data" \in DOMAIN original => duplicate["data"] = original["data"]
                /\ \A a \in DOMAIN original \ {"data"} :
                        /\ View(duplicate)[a].val = View(original)[a].val
                        /\ objects[original[a]].mutable => duplicate[a] # original[a]
        /\ (before.op \in {"mutate", "assign"} /\ before.attr # "data") =>
                /\ before.who = "duplicate" => View(original) = before.original
                /\ before.who = "original" => View(duplicate) = before.duplicate
        /\ (/\ before.op = "mutate"
            /\ before.attr = "data"
            /\ before.original["data"].obj = before.duplicate["data"].obj)
                => /\ View(original)["data"] = View(duplicate)["data"]
                   /\ View(original)["data"] # before.original["data"]

\* the parameters of the copy's geom were changed in place after the shared
\* working table had been: the original shows the change of the table and
\* not that of the geom
C14_Witness ==
    /\ copy_pc = "copied"
    /\ before.op = "mutate" /\ before.who = "duplicate" /\ before.attr = "geom"
    /\ "data" \in DOMAIN original
    /\ original["data"] = duplicate["data"]
    /\ View(original)["data"].val = 1
    /\ View(duplicate)["geom"].val = 1
    /\ View(original)["geom"].val = 0

(***************************************************************************)
(* Claims about stat_count, checked under SpecCount.                       *)
(***************************************************************************)
\* the weight of the row i of the table: 1 when there is no weight column
WeightOfRow(data, i) ==
    IF "weight" \in DOMAIN data.cols THEN data.cols["weight"].vals[i] ELSE 1

\* the sum of the weights of the rows S
RECURSIVE WeightSum(_, _)
WeightSum(data, S) ==
    IF S = {} THEN 0
    ELSE LET i == CHOOSE j \in S : TRUE
         IN  WeightOfRow(data, i) + WeightSum(data, S \ {i})

\* the sum of f over the set S
RECURSIVE SumOf(_, _)
SumOf(f, S) ==
    IF S = {} THEN 0
    ELSE LET k == CHOOSE j \in S : TRUE IN f[k] + SumOf(f, S \ {k})

\* the rows of the table in the group g
MembersOf(data, g) == { i \in 1..data.n : data.cols["group"].vals[i] = g }

\* 0.9 times the resolution of all the x of the table, in tenths
DefaultWidth(data) ==
    LET values == { data.cols["x"].vals[i] : i \in 1..data.n }
        gaps == { a - b : a \in values, b \in values } \cap (1..MaxX)
    IN  IF gaps = {} THEN 9 ELSE 9 * (CHOOSE g \in gaps : \A h \in gaps : g <= h)

\* the output of compute_group for the group g has one row per value of x
\* in the group, in the order of x; count is the sum of the weights of the
\* rows with that x, prop is count over the sum of the absolute counts, and
\* width is the width parameter, set from the whole table when not set
CountedRows(g) ==
    LET data == count_in.data
        out == count_out.groups[g]
        rows == out.rows
        x == data.cols["x"].vals
        values == { x[i] : i \in MembersOf(data, g) }
        total == SumOf([k \in 1..Len(rows) |-> Abs(rows[k].count)], 1..Len(rows))
    IN  /\ out.exc = "none"
        /\ Len(rows) = Cardinality(values)
        /\ \A k \in 1..Len(rows) : rows[k].x \in values
        /\ \A k, m \in 1..Len(rows) : k < m => rows[k].x < rows[m].x
        /\ \A k \in 1..Len(rows) :
                /\ rows[k].count =
                        WeightSum(data, { i \in MembersOf(data, g) : x[i] = rows[k].x })
                /\ rows[k].prop = [num |-> rows[k].count, den |-> total]
                /\ rows[k].width =
                        IF count_in.params.width # WidthUnset THEN count_in.params.width
                        ELSE DefaultWidth(data)

\* the prop values of the output for the group g sum to 1: they have a
\* denominator that is not 0, and their numerators sum to it
PropSumsToOne(g) ==
    LET rows == count_out.groups[g].rows
        den == rows[1].prop.den
    IN  /\ den # 0
        /\ SumOf([k \in 1..Len(rows) |-> rows[k].prop.num], 1..Len(rows)) = den

\* compute_group was given x and no y
CountedWithoutY ==
    /\ count_pc = "ret"
    /\ "y" \notin DOMAIN count_in.data.cols
    /\ ~count_in.params.y

\* C15 as stated: for every group table with x and no y the output has one
\* row per value of x in the order of x, count the sum of the weights, prop
\* the count over the sum of the absolute counts, the width of setup_params,
\* and the prop values of one call sum to 1.
C15_PropAlwaysSumsToOne ==
    CountedWithoutY =>
        \A g \in GroupsOf(count_in.data) : CountedRows(g) /\ PropSumsToOne(g)

\* C15 amended: the same, but the prop values of one call sum to 1 when no
\* count is negative and some count is positive; with a negative count they
\* sum to less than 1, and when all the counts are 0 they are 0/0.
C15_CountPerValue ==
    CountedWithoutY =>
        \A g \in GroupsOf(count_in.data) :
            LET rows == count_out.groups[g].rows
                counts == { rows[k].count : k \in 1..Len(rows) }
            IN  /\ CountedRows(g)
                /\ ((\A c \in counts : c >= 0) /\ (\E c \in counts : c > 0))
                        <=> PropSumsToOne(g)

\* a group of two values of x that are 2 apart, in a table whose x are 1
\* apart and whose weights are not all 1, got the width of the whole table
\* and prop values that sum to 1
C15_Witness ==
    /\ CountedWithoutY
    /\ "weight" \in DOMAIN count_in.data.cols
    /\ count_in.params.width = WidthUnset
    /\ \E g \in GroupsOf(count_in.data) :
            LET rows == count_out.groups[g].rows
            IN  /\ Len(rows) = 2
                /\ rows[2].x - rows[1].x = 2
                /\ rows[1].width = 9
                /\ rows[1].count = 1 /\ rows[2].count = 1
                /\ PropSumsToOne(g)
    /\ \E i \in 1..count_in.data.n : count_in.data.cols["weight"].vals[i] = 0

\* C16: given x and an explicit y, as a column of the data or as a
\* parameter, stat_count raises PlotnineError and makes no output table.
C16_RejectsY ==
    (count_pc = "ret" /\ ("y" \in DOMAIN count_in.data.cols \/ count_in.params.y)) =>
        \A g \in GroupsOf(count_in.data) :
            /\ count_out.groups[g].exc = "PlotnineError"
            /\ count_out.groups[g].rows = <<>>

\* y came as a parameter only, and the call was rejected
C16_Witness ==
    /\ count_pc = "ret"
    /\ count_in.params.y
    /\ "y" \notin DOMAIN count_in.data.cols
    /\ \A g \in GroupsOf(count_in.data) : count_out.groups[g].exc = "PlotnineError"

(***************************************************************************)
(* Claims about stat_count in a layer, checked under SpecStages.           *)
(***************************************************************************)
\* the rows of the table t that are in the panel of its row k
SamePanel(t, k) ==
    { m \in 1..t.n : t.cols["PANEL"].vals[m] = t.cols["PANEL"].vals[k] }

\* C17: prop is the ratio of points in the panel at a position: in the
\* output of stat_count the prop of a row is its count over the total count
\* of the rows of its panel, whatever the groups of the panel, so that the
\* prop values of a panel sum to 1.
C17_PropIsShareOfPanel ==
    (Ran("compute_statistic") /\ before.lyr.stat.kind = "count" /\ before.lyr.data.n > 0) =>
        \A k \in 1..lyr.data.n :
            lyr.data.cols["prop"].vals[k] =
                [num |-> lyr.data.cols["count"].vals[k],
                 den |-> SumOf(lyr.data.cols["count"].vals, SamePanel(lyr.data, k))]

(***************************************************************************)
(* Further claims about layer.setup, checked under SpecSetup.              *)
(***************************************************************************)
\* the types of literal whose values are discrete
DiscreteTypes == {"str", "bool"}

\* setup has bound group to stage(start=...) of its literal parameter
GroupParameterBound ==
    /\ pc = "setup"
    /\ "group" \in DOMAIN self.aes_params
    /\ "group" \in DOMAIN self.mapping
    /\ self.mapping["group"].stage

\* C18 as stated: with a literal 'group' parameter the resolved mapping binds
\* group to a starting expression, and a discrete literal of any type, not
\* only a string, is re-expressed as a double-quoted string expression.
C18_EveryDiscreteLiteralQuoted ==
    (pc = "setup" /\ "group" \in DOMAIN self.aes_params) =>
        /\ GroupParameterBound
        /\ self.aes_params["group"].type \in DiscreteTypes =>
                self.mapping["group"].start =
                    StrLit("\"" \o self.aes_params["group"].text \o "\"")

\* C18 amended: with a literal 'group' parameter the resolved mapping binds
\* group to a starting expression; a literal that is a string is
\* re-expressed as a double-quoted string expression, and a literal of any
\* other type, discrete or not, is the starting value as it is.
C18_StringLiteralQuoted ==
    (pc = "setup" /\ "group" \in DOMAIN self.aes_params) =>
        /\ GroupParameterBound
        /\ self.mapping["group"].start =
                IF self.aes_params["group"].type = "str"
                THEN StrLit("\"" \o self.aes_params["group"].text \o "\"")
                ELSE self.aes_params["group"]

\* a string given as the group parameter of a layer that also maps group
\* was bound double-quoted
C18_Witness ==
    /\ GroupParameterBound
    /\ "group" \in DOMAIN before.mapping
    /\ self.aes_params["group"] = StrLit("g")
    /\ self.mapping["group"] = Stage(StrLit("\"g\""))

\* C19: after setup, whatever the layer was given as data (nothing, a
\* function, a convertible object, a table), its working table is a copy:
\* never the object the user gave the plot or the layer.
C19_WorkingTableIsCopy ==
    pc = "setup" => self.data.obj \notin {PlotObj, LayerObj}

====
